---- MODULE Spec2Model ----
(***************************************************************************)
(* A model of goinject.Process (src/goinject.go) and of the build-id       *)
(* forger (src/unnamed/part_000).                                          *)
(*                                                                         *)
(* Strings are sequences of tokens.  A token is "/", ".", " ", a newline,  *)
(* a double quote, or a run of characters holding none of these, so that   *)
(* filepath.Base, filepath.Ext, filepath.Dir, strings.HasPrefix,           *)
(* strings.Fields and strings.Contains are computed on the model exactly   *)
(* as the library computes them on the bytes.  Directory names are single  *)
(* characters, so a token prefix is a byte prefix.                         *)
(***************************************************************************)
EXTENDS Integers, Sequences, FiniteSets, TLC

\* ------------------------------------------------------------------ bounds
MaxFiles == 2      \* files listed after -pack
MaxExit == 2       \* largest exit code of the real tool
MaxImports == 2    \* longest import list handed to the patcher called by itself
MaxArgs == 3        \* arguments handed to extractFilesFromPack called by itself
MaxForgeCalls == 3 \* calls of the forger in one process

\* --------------------------------------------------------- program constants
toolOffset == 1
argsOffset == 2
buildIDHashLength == 15
sha256Size == 32

\* ------------------------------------------------------------ string library
Nil == "nil"
Err == "error"

RECURSIVE LastIndexFrom(_, _, _)
LastIndexFrom(s, tok, i) ==
  IF i = 0 THEN 0 ELSE IF s[i] = tok THEN i ELSE LastIndexFrom(s, tok, i - 1)

\* 1-based position of the last tok in s, 0 when there is none
LastIndex(s, tok) == LastIndexFrom(s, tok, Len(s))

HasPrefix(s, p) == Len(p) <= Len(s) /\ SubSeq(s, 1, Len(p)) = p

\* strings.Contains
Contains(s, p) ==
  \E i \in 0..(Len(s) - Len(p)) : SubSeq(s, i + 1, i + Len(p)) = p

RECURSIVE StripTrailing(_, _)
StripTrailing(s, tok) ==
  IF s # <<>> /\ s[Len(s)] = tok THEN StripTrailing(SubSeq(s, 1, Len(s) - 1), tok) ELSE s

RECURSIVE RemoveAll(_, _)
\* strings.ReplaceAll(s, tok, "")
RemoveAll(s, tok) ==
  IF s = <<>> THEN <<>>
  ELSE IF s[1] = tok THEN RemoveAll(Tail(s), tok)
  ELSE <<s[1]>> \o RemoveAll(Tail(s), tok)

Spaces == {" ", "\n"}
IsSpace(tok) == tok \in Spaces

RECURSIVE TrimLeft(_)
TrimLeft(s) == IF s # <<>> /\ IsSpace(s[1]) THEN TrimLeft(Tail(s)) ELSE s

RECURSIVE TrimRight(_)
TrimRight(s) ==
  IF s # <<>> /\ IsSpace(s[Len(s)]) THEN TrimRight(SubSeq(s, 1, Len(s) - 1)) ELSE s

\* strings.TrimSpace
TrimSpace(s) == TrimRight(TrimLeft(s))

RECURSIVE SplitOn(_, _, _)
\* the pieces of s between the tokens of seps; cur is the piece being read
SplitOn(s, seps, cur) ==
  IF s = <<>> THEN <<cur>>
  ELSE IF s[1] \in seps THEN <<cur>> \o SplitOn(Tail(s), seps, <<>>)
  ELSE SplitOn(Tail(s), seps, Append(cur, s[1]))

\* strings.Fields: the maximal runs of non-space tokens
Fields(s) == SelectSeq(SplitOn(s, Spaces, <<>>), LAMBDA w : w # <<>>)

\* bufio.Scanner with ScanLines: the lines of a file, a last empty piece dropped
Lines(s) ==
  LET parts == SplitOn(s, {"\n"}, <<>>)
  IN IF parts[Len(parts)] = <<>> THEN SubSeq(parts, 1, Len(parts) - 1) ELSE parts

\* filepath.Base
Base(path) ==
  IF path = <<>> THEN <<".">>
  ELSE LET t == StripTrailing(path, "/")
       IN IF t = <<>> THEN <<"/">> ELSE SubSeq(t, LastIndex(t, "/") + 1, Len(t))

\* the file part of filepath.Split
SplitFile(path) == SubSeq(path, LastIndex(path, "/") + 1, Len(path))

\* filepath.Ext: from the last dot of the last path element
Ext(path) ==
  LET d == LastIndex(path, ".")
  IN IF d > LastIndex(path, "/") THEN SubSeq(path, d, Len(path)) ELSE <<>>

\* filepath.Dir of a clean path
Dir(path) ==
  LET sl == LastIndex(path, "/")
  IN IF sl = 0 THEN <<".">> ELSE IF sl = 1 THEN <<"/">> ELSE SubSeq(path, 1, sl - 1)

\* slices.Index, 0-based, -1 when absent
Index(s, x) ==
  IF \E i \in 1..Len(s) : s[i] = x
  THEN (CHOOSE i \in 1..Len(s) : s[i] = x /\ \A j \in 1..(i - 1) : s[j] # x) - 1
  ELSE -1

\* Go's s[from:], 0-based
SliceFrom(s, from) == SubSeq(s, from + 1, Len(s))

\* Go's s[:to], 0-based
SliceTo(s, to) == SubSeq(s, 1, to)

Range(s) == {s[i] : i \in 1..Len(s)}


\* ------------------------------------------------------------------ inputs
Self == <<"/", "b", "/", "inject">>                 \* os.Args[0]
Compile == <<"compile">>
PackFlag == <<"-pack">>
StdFlag == <<"-std">>
ImportcfgFlag == <<"-importcfg">>
VFull == <<"-V=full">>
GoExt == <<".", "go">>
DevNull == <<"/", "dev", "/", "null">>              \* os.DevNull
CfgPath == <<"/", "w", "/", "importcfg">>
TmpRoot == <<"/", "tmp", "/", "goinject1">>         \* what os.MkdirTemp("", goinject) returns
PathSeparator == "/"

Tools == {<<"/", "t", "/", "compile">>, <<"/", "t", "/", "link">>}

\* the source files of the model, in the order the go command lists them
AllFiles ==
  << <<"/", "p", "/", "a", ".", "go">>,
     <<"/", "p", "/", "b", ".", "go">>,
     <<"/", "p", "/", "c", ".", "s">>,
     <<"/", "p", "q", "/", "a", ".", "go">>,
     <<"/", "q", "/", "d", ".", "go">> >>

RECURSIVE SubLists(_, _)
\* the subsequences of s of at most n elements
SubLists(s, n) ==
  IF s = <<>> \/ n = 0 THEN {<<>>}
  ELSE SubLists(Tail(s), n) \cup {<<s[1]>> \o t : t \in SubLists(Tail(s), n - 1)}

FileLists == SubLists(AllFiles, MaxFiles)

FlagLists ==
  { <<>>,
    <<StdFlag>>,
    <<ImportcfgFlag, CfgPath>>,
    <<StdFlag, ImportcfgFlag, CfgPath>>,
    <<VFull>> }

\* what follows the flags: nothing, or -pack and the files
Tails == {<<>>, <<PackFlag, ImportcfgFlag>>} \cup {<<PackFlag>> \o fl : fl \in FileLists}

ArgVectors == {<<Self, t>> \o fl \o tl : t \in Tools, fl \in FlagLists, tl \in Tails}

\* what `go env GOMOD` prints
GomodOutputs == {<<"\n">>, DevNull \o <<"\n">>, <<"/", "p", "/", "go", ".", "mod", "\n">>}

\* import paths, and the quoted literal an ImportSpec holds
Pkgs == {"fmt", "pkgX", "unsafe"}
Quoted(p) == <<"\"", p, "\"">>
ImportSpec(p) == [Path |-> [Value |-> Quoted(p)]]
PkgNameOf(fileImport) == RemoveAll(fileImport.Path.Value, "\"")

\* the import lists a rewritten file can have
ImportLists ==
  { <<ImportSpec("fmt")>>, <<ImportSpec("fmt"), ImportSpec("pkgX")>> }

ExportOf(p) == <<"/", "c", "/", p, ".", "a">>        \* the archive go list reports
ManifestLine(pkgName, pkgPath) == <<"packagefile ">> \o pkgName \o <<"=">> \o pkgPath \o <<"\n">>
Header == <<"# import config", "\n">>

\* the importcfg file when the invocation starts
Manifests ==
  { [exists |-> FALSE, data |-> <<>>],
    [exists |-> TRUE, data |-> Header],
    [exists |-> TRUE, data |-> Header \o ManifestLine(<<"fmt">>, ExportOf("fmt"))] }

\* ------------------------------------------------- pure functions of goinject
\* extractFilesFromPack looking for the last -pack
extractFilesFromPack_LastPack(args) ==
  IF \A k \in 1..Len(args) : args[k] # PackFlag
  THEN [files |-> <<>>, index |-> 0, err |-> Err]
  ELSE LET packIndex == (CHOOSE k \in 1..Len(args) :
                           args[k] = PackFlag /\ \A j \in (k + 1)..Len(args) : args[j] # PackFlag) - 1
       IN [files |-> SliceFrom(args, packIndex + 1),
           index |-> packIndex + argsOffset + 1,
           err |-> Nil]

\* extractFilesFromPack with the splice index one short
extractFilesFromPack_IndexShort(args) ==
  LET packIndex == Index(args, PackFlag)
  IN IF packIndex = -1
     THEN [files |-> <<>>, index |-> 0, err |-> Err]
     ELSE [files |-> SliceFrom(args, packIndex + 1),
           index |-> packIndex + argsOffset,
           err |-> Nil]

\* extractFilesFromPack
extractFilesFromPack(args) ==
  LET packIndex == Index(args, PackFlag)
  IN IF packIndex = -1
     THEN [files |-> <<>>, index |-> 0, err |-> Err]
     ELSE [files |-> SliceFrom(args, packIndex + 1),
           index |-> packIndex + argsOffset + 1,
           err |-> Nil]

\* hasNonRelevantFiles without the test of the extension
hasNonRelevantFiles_NoExt(args, files, wdir) ==
  \/ StdFlag \in Range(args)
  \/ \E i \in 1..Len(files) : ~HasPrefix(files[i], wdir)

\* hasNonRelevantFiles
hasNonRelevantFiles(args, files, wdir) ==
  \/ StdFlag \in Range(args)
  \/ \E i \in 1..Len(files) : Ext(files[i]) # GoExt
  \/ \E i \in 1..Len(files) : ~HasPrefix(files[i], wdir)

\* getwd, given what `go env GOMOD` did
getwd(ran, out) ==
  IF ~ran THEN [wd |-> <<>>, err |-> Err]
  ELSE LET goMod == TrimSpace(out)
       IN IF goMod # <<>> /\ goMod # DevNull
          THEN [wd |-> Dir(goMod), err |-> Nil]
          ELSE [wd |-> <<>>, err |-> Err]

\* importcfgPath: "panic" is the index-out-of-range of args[idx+1]
importcfgPath(args) ==
  LET idx == Index(args, ImportcfgFlag)
  IN IF idx = -1 THEN [path |-> <<>>, err |-> Err]
     ELSE IF idx + 1 >= Len(args) THEN [path |-> <<>>, err |-> "panic"]
     ELSE [path |-> args[idx + 2], err |-> Nil]

\* isPkgInImportCfg scanning the first line only
isPkgInImportCfg_FirstLine(cfg, pkgName) ==
  /\ cfg.exists
  /\ LET pattern == <<"packagefile ">> \o pkgName \o <<"=">>
         ls == Lines(cfg.data)
     IN ls # <<>> /\ Contains(ls[1], pattern)

\* isPkgInImportCfg
isPkgInImportCfg(cfg, pkgName) ==
  /\ cfg.exists
  /\ LET pattern == <<"packagefile ">> \o pkgName \o <<"=">>
         ls == Lines(cfg.data)
     IN \E i \in 1..Len(ls) : Contains(ls[i], pattern)

\* addMissingPkgToImportcfg opening the file with O_TRUNC in place of O_APPEND
addMissingPkgToImportcfg_Trunc(cfg, pkgName, pkgPath) ==
  IF ~cfg.exists THEN [cfg |-> cfg, err |-> Err]
  ELSE [cfg |-> [cfg EXCEPT !.data = ManifestLine(pkgName, pkgPath)], err |-> Nil]

\* addMissingPkgToImportcfg: O_APPEND|O_WRONLY without O_CREATE
addMissingPkgToImportcfg(cfg, pkgName, pkgPath) ==
  IF ~cfg.exists THEN [cfg |-> cfg, err |-> Err]
  ELSE [cfg |-> [cfg EXCEPT !.data = @ \o ManifestLine(pkgName, pkgPath)], err |-> Nil]

\* what `go list -json -deps -export -- pkg` can answer: the command fails,
\* or it streams records, with or without an archive for pkg itself ("unsafe" is a
\* standard package without an archive)
ListOutcomes == {"fail", "noexport", "ok"}
GoList(pkg, o) ==
  << [ImportPath |-> <<"unsafe">>, Export |-> <<>>, Standard |-> TRUE],
     [ImportPath |-> <<"dep">>, Export |-> ExportOf("dep"), Standard |-> FALSE],
     [ImportPath |-> pkg,
      Export |-> IF o = "ok" /\ pkg # <<"unsafe">> THEN ExportOf(pkg[1]) ELSE <<>>,
      Standard |-> (pkg = <<"unsafe">>)] >>

RECURSIVE ListToMap(_)
\* the map ResolvePkg builds from the records: a later record overrides
ListToMap(items) ==
  IF items = <<>> THEN <<>>
  ELSE LET rest == ListToMap(SubSeq(items, 1, Len(items) - 1))
           item == items[Len(items)]
       IN IF item.Standard /\ item.ImportPath = <<"unsafe">> /\ item.Export = <<>> THEN rest
          ELSE IF item.Export = <<>> THEN rest
          ELSE SelectSeq(rest, LAMBDA e : e.key # item.ImportPath)
               \o <<[key |-> item.ImportPath, val |-> item.Export]>>

\* ResolvePkg
ResolvePkg(pkgName, o) ==
  IF o = "fail" THEN [packages |-> <<>>, err |-> Err]
  ELSE [packages |-> ListToMap(GoList(pkgName, o)), err |-> Nil]

MapHas(m, k) == \E i \in 1..Len(m) : m[i].key = k
MapGet(m, k) == (CHOOSE i \in 1..Len(m) : m[i].key = k)

\* the manifests the patcher is called on by itself: those of an invocation, one whose
\* last line has no newline, and one that maps pkgX
PatchManifests ==
  Manifests \cup
  { [exists |-> TRUE,
     data |-> Header \o <<"packagefile ">> \o <<"fmt">> \o <<"=">> \o ExportOf("fmt")],
    [exists |-> TRUE, data |-> Header \o ManifestLine(<<"pkgX">>, ExportOf("pkgX"))] }

\* the import lists the patcher is called with by itself, repeated paths included
PatchImportLists ==
  UNION { [1..n -> {ImportSpec(p) : p \in Pkgs}] : n \in 0..MaxImports }

\* the answers of `go list`, one per package; a package that is not imported or is
\* already in the manifest is never asked for, and its answer is fixed
GoLists(cfg, imports) ==
  LET asked == {p \in Pkgs : /\ \E i \in 1..Len(imports) : PkgNameOf(imports[i]) = <<p>>
                             /\ ~isPkgInImportCfg(cfg, <<p>>)}
  IN {[p \in Pkgs |-> IF p \in asked THEN g[p] ELSE "fail"] : g \in [asked -> ListOutcomes]}

RECURSIVE addMissingPkgs_ResolveUnsafe(_, _, _)
RECURSIVE addMissingPkgs_SkipUnresolved(_, _, _)
RECURSIVE addMissingPkgs(_, _, _)
\* addMissingPkgs giving back the manifest it was called on when it fails
addMissingPkgs_Rollback(cfg, imports, golist) ==
  LET r == addMissingPkgs_SkipUnresolved(cfg, imports, golist)
      unresolved == \E i \in 1..Len(imports) :
                      LET pkgName == PkgNameOf(imports[i])
                      IN /\ ~isPkgInImportCfg(cfg, pkgName)
                         /\ pkgName # <<"unsafe">>
                         /\ golist[pkgName[1]] # "ok"
  IN IF unresolved \/ r.err # Nil THEN [cfg |-> cfg, err |-> Err] ELSE r

\* addMissingPkgs failing when it is given no import
addMissingPkgs_FailOnNone(cfg, imports, golist) ==
  IF imports = <<>> THEN [cfg |-> cfg, err |-> Err]
  ELSE addMissingPkgs_SkipUnresolved(cfg, imports, golist)

\* addMissingPkgs resolving "unsafe" like any other import
addMissingPkgs_ResolveUnsafe(cfg, imports, golist) ==
  IF imports = <<>> THEN [cfg |-> cfg, err |-> Nil]
  ELSE LET pkgName == PkgNameOf(imports[1])
       IN IF isPkgInImportCfg(cfg, pkgName)
          THEN addMissingPkgs_ResolveUnsafe(cfg, Tail(imports), golist)
          ELSE LET r == ResolvePkg(pkgName, golist[pkgName[1]])
               IN IF r.err # Nil THEN [cfg |-> cfg, err |-> Err]
                  ELSE IF ~MapHas(r.packages, pkgName) THEN [cfg |-> cfg, err |-> Err]
                  ELSE LET a == addMissingPkgToImportcfg(
                                  cfg, pkgName, r.packages[MapGet(r.packages, pkgName)].val)
                       IN IF a.err # Nil THEN [cfg |-> cfg, err |-> Err]
                          ELSE addMissingPkgs_ResolveUnsafe(a.cfg, Tail(imports), golist)

\* addMissingPkgs going on to the next import when one cannot be resolved
addMissingPkgs_SkipUnresolved(cfg, imports, golist) ==
  IF imports = <<>> THEN [cfg |-> cfg, err |-> Nil]
  ELSE LET pkgName == PkgNameOf(imports[1])
           rest == addMissingPkgs_SkipUnresolved(cfg, Tail(imports), golist)
       IN IF isPkgInImportCfg(cfg, pkgName) THEN rest
          ELSE IF pkgName = <<"unsafe">> THEN rest
          ELSE LET r == ResolvePkg(pkgName, golist[pkgName[1]])
               IN IF r.err # Nil THEN rest
                  ELSE IF ~MapHas(r.packages, pkgName) THEN rest
                  ELSE LET a == addMissingPkgToImportcfg(
                                  cfg, pkgName, r.packages[MapGet(r.packages, pkgName)].val)
                       IN IF a.err # Nil THEN [cfg |-> cfg, err |-> Err]
                          ELSE addMissingPkgs_SkipUnresolved(a.cfg, Tail(imports), golist)

\* addMissingPkgs: the imports in order, stopping at the first error
addMissingPkgs(cfg, imports, golist) ==
  IF imports = <<>> THEN [cfg |-> cfg, err |-> Nil]
  ELSE LET pkgName == PkgNameOf(imports[1])
       IN IF isPkgInImportCfg(cfg, pkgName) THEN addMissingPkgs(cfg, Tail(imports), golist)
          ELSE IF pkgName = <<"unsafe">> THEN addMissingPkgs(cfg, Tail(imports), golist)
          ELSE LET r == ResolvePkg(pkgName, golist[pkgName[1]])
               IN IF r.err # Nil THEN [cfg |-> cfg, err |-> Err]
                  ELSE IF ~MapHas(r.packages, pkgName) THEN [cfg |-> cfg, err |-> Err]
                  ELSE LET a == addMissingPkgToImportcfg(
                                  cfg, pkgName, r.packages[MapGet(r.packages, pkgName)].val)
                       IN IF a.err # Nil THEN [cfg |-> cfg, err |-> Err]
                          ELSE addMissingPkgs(a.cfg, Tail(imports), golist)


\* ------------------------------------------------- the patcher of moonject.go
\* addMissingPkgToImportcfg of moonject.go: the content written has no newline
moonject_addMissingPkgToImportcfg(cfg, pkgName, pkgPath) ==
  IF ~cfg.exists THEN [cfg |-> cfg, err |-> Err]
  ELSE [cfg |-> [cfg EXCEPT !.data = @ \o <<"packagefile ">> \o pkgName \o <<"=">> \o pkgPath],
        err |-> Nil]

RECURSIVE moonject_addMissingPkgs(_, _, _)
\* addMissingPkgs of moonject.go: isPkgInImportCfg and resolvePkg are those of goinject.go,
\* and "unsafe" is resolved like any other import
moonject_addMissingPkgs(cfg, imports, golist) ==
  IF imports = <<>> THEN [cfg |-> cfg, err |-> Nil]
  ELSE LET pkgName == PkgNameOf(imports[1])
       IN IF isPkgInImportCfg(cfg, pkgName) THEN moonject_addMissingPkgs(cfg, Tail(imports), golist)
          ELSE LET r == ResolvePkg(pkgName, golist[pkgName[1]])
               IN IF r.err # Nil THEN [cfg |-> cfg, err |-> Err]
                  ELSE IF ~MapHas(r.packages, pkgName) THEN [cfg |-> cfg, err |-> Err]
                  ELSE LET a == moonject_addMissingPkgToImportcfg(
                                  cfg, pkgName, r.packages[MapGet(r.packages, pkgName)].val)
                       IN IF a.err # Nil THEN [cfg |-> cfg, err |-> Err]
                          ELSE moonject_addMissingPkgs(a.cfg, Tail(imports), golist)

\* ------------------------------------------------ the build-id forger (hash.go)
\* the probe answers of the real tool, as it prints them
ProbeOutputs ==
  { <<"compile", " ", "version", " ", "go1", " ", "buildID=", "x", "\n">>,
    <<"compile", " ", "version", " ", "go1", "\n">>,
    <<"compile", " ", "devel", " ", "go1", " ", "buildID=", "x", "\n">>,
    <<"compile", " ", "devel", " ", "go1", "\n">>,
    <<"compile", " ", "version", "\n">>,
    <<"link", " ", "version", " ", "go1", " ", "buildID=", "y", "\n">> }

\* what `go tool buildid <executable>` prints
ToolIDs == {<<"t1", "\n">>, <<"t2", "\n">>}

\* a Reset that keeps the bytes written before
HasherReset_Keep(h) == h
\* the global hasher holds the bytes written since the last Reset
HasherReset(h) == <<>>
HasherWrite(h, b) == h \o b

\* sha256 of the bytes written, as sha256.Size distinct bytes of a collision-free digest
Sum(written) == [i \in 1..sha256Size |-> <<written, i>>]

\* encodeBuildIDHash encoding the whole digest
encodeBuildIDHash_Whole(h) == [b64 |-> h]

\* encodeBuildIDHash: base64.RawURLEncoding of the first buildIDHashLength bytes
encodeBuildIDHash(h) == [b64 |-> SubSeq(h, 1, buildIDHashLength)]

\* the test requiring both the word "version" and the buildID= field
NotAVersionLine_Strict(f, toolName) ==
  \/ Len(f) < 3
  \/ f[1] # toolName
  \/ f[2] # <<"version">>
  \/ ~HasPrefix(f[Len(f)], <<"buildID=">>)

\* the test of alterToolVersion for a line it leaves alone
NotAVersionLine(f, toolName) ==
  \/ Len(f) < 3
  \/ f[1] # toolName
  \/ (f[2] # <<"version">> /\ ~HasPrefix(f[Len(f)], <<"buildID=">>))

\* the line alterToolVersion prints when it forges
ForgedLine(line, toolName, contentID) ==
  line \o <<" ", "+">> \o toolName \o <<" ", "buildID=_/_/_/", encodeBuildIDHash(contentID), "\n">>

\* execCmd: the trimmed output of a command that ran and exited with 0
execCmd(ran, out) ==
  IF ran THEN [out |-> TrimSpace(out), err |-> Nil] ELSE [out |-> <<>>, err |-> Err]

\* buildidOf
buildidOf(ran, out) == execCmd(ran, out)

\* addToolToHash on the global hasher h: Reset, Write(inputHash), buildidOf, Write(toolID), Sum
addToolToHash(h, inputHash, idRan, idOut) ==
  LET h1 == HasherWrite(HasherReset(h), inputHash)
      toolID == buildidOf(idRan, idOut)
  IN IF toolID.err # Nil THEN [hasher |-> h1, sum |-> <<>>, err |-> Err]
     ELSE LET h2 == HasherWrite(h1, toolID.out)
          IN [hasher |-> h2, sum |-> Sum(h2), err |-> Nil]

\* alterToolVersion printing the line of the real tool when it cannot forge
alterToolVersion_PrintFirst(t, h, probeRan, probeOut, exeOK, idRan, idOut) ==
  LET c == execCmd(probeRan, probeOut)
      line == c.out
      f == Fields(line)
      toolName == SplitFile(t)
  IN IF c.err # Nil THEN [printed |-> <<>>, hasher |-> h, err |-> Err]
     ELSE IF NotAVersionLine(f, toolName) THEN [printed |-> <<line>>, hasher |-> h, err |-> Nil]
     ELSE IF ~exeOK THEN [printed |-> <<line>>, hasher |-> h, err |-> Err]
     ELSE LET a == addToolToHash(h, line, idRan, idOut)
          IN IF a.err # Nil THEN [printed |-> <<line>>, hasher |-> a.hasher, err |-> Err]
             ELSE [printed |-> <<ForgedLine(line, toolName, a.sum)>>, hasher |-> a.hasher,
                   err |-> Nil]

\* alterToolVersion(tool, args) on the global hasher h. probeRan and probeOut are the
\* probe of the real tool, exeOK is os.Executable, idRan and idOut are `go tool buildid`.
\* printed is what the call writes to the standard output.
alterToolVersion(t, h, probeRan, probeOut, exeOK, idRan, idOut) ==
  LET c == execCmd(probeRan, probeOut)
      line == c.out
      f == Fields(line)
      toolName == SplitFile(t)
  IN IF c.err # Nil THEN [printed |-> <<>>, hasher |-> h, err |-> Err]
     ELSE IF NotAVersionLine(f, toolName) THEN [printed |-> <<line>>, hasher |-> h, err |-> Nil]
     ELSE IF ~exeOK THEN [printed |-> <<>>, hasher |-> h, err |-> Err]
     ELSE LET a == addToolToHash(h, line, idRan, idOut)
          IN IF a.err # Nil THEN [printed |-> <<>>, hasher |-> a.hasher, err |-> Err]
             ELSE [printed |-> <<ForgedLine(line, toolName, a.sum)>>, hasher |-> a.hasher,
                   err |-> Nil]

\* ------------------------------------------------------------------- state
VARIABLES
  osArgs,          \* os.Args
  cfg0,            \* the importcfg file when the invocation started
  manifest,        \* the importcfg file (no path processFile writes names it)
  fs,              \* the other files: path -> content
  pc,              \* where the main goroutine is
  exitCode,        \* the exit code of the process, -1 while it runs
  filesToCompile, goFilesIndex, wd, importCfg, newArgs,
  tmpDir,          \* what os.MkdirTemp returned
  tmpExists,       \* the temporary directory is on disk
  err, fileImports,  \* the variables the rewrite goroutines share
  wg,              \* the WaitGroup counter
  task,            \* the rewrite goroutines
  runs,            \* the subprocesses of the real tool, in order
  stdout,          \* what the process printed
  hasher,          \* the bytes written to the global sha256 hasher
  call             \* what the environment answered to the last call of the patcher or the forger

vars ==
  << osArgs, cfg0, manifest, fs, pc, exitCode, filesToCompile, goFilesIndex, wd, importCfg,
     newArgs, tmpDir, tmpExists, err, fileImports, wg, task, runs, stdout, hasher, call >>

tool == osArgs[toolOffset + 1]
args == SliceFrom(osArgs, argsOffset)

Original(p) == [rewritten |-> FALSE, of |-> p]
Rewritten(p, imports) == [rewritten |-> TRUE, of |-> p, parses |-> TRUE, imports |-> imports]
Unparsable(p) == [rewritten |-> TRUE, of |-> p, parses |-> FALSE, imports |-> <<>>]

\* what the modifier and the restorer can make of a file: a text that parses, with its
\* imports, or one that does not
Outputs(p) == {Rewritten(p, imports) : imports \in ImportLists} \cup {Unparsable(p)}

Running == exitCode = -1

Init ==
  /\ osArgs \in ArgVectors
  /\ cfg0 \in Manifests
  /\ manifest = cfg0
  /\ fs = [p \in Range(AllFiles) |-> Original(p)]
  /\ pc = "start"
  /\ exitCode = -1
  /\ filesToCompile = <<>>
  /\ goFilesIndex = 0
  /\ wd = <<>>
  /\ importCfg = <<>>
  /\ newArgs = <<>>
  /\ tmpDir = <<>>
  /\ tmpExists = FALSE
  /\ err = Nil
  /\ fileImports = <<>>
  /\ wg = 0
  /\ task = <<>>
  /\ runs = <<>>
  /\ stdout = <<>>
  /\ hasher = <<>>
  /\ call = [op |-> "none"]

\* ------------------------------------------------------- ways the process ends
\* os.RemoveAll(tmpDir): nothing for the empty path
RemoveTmp(files, dir) ==
  IF dir = <<>> THEN files
  ELSE [p \in {q \in DOMAIN files : ~HasPrefix(q, dir \o <<PathSeparator>>)} |-> files[p]]

\* the deferred os.RemoveAll(tmpDir) has been registered
DeferRegistered == pc \in {"spawn", "wait", "patch", "dispatch"}

\* a panic in the main goroutine: the deferred calls run, then the runtime exits with 2
MainPanics ==
  /\ pc' = "panicked"
  /\ exitCode' = 2
  /\ IF DeferRegistered
     THEN fs' = RemoveTmp(fs, tmpDir) /\ tmpExists' = (tmpExists /\ tmpDir = <<>>)
     ELSE UNCHANGED <<fs, tmpExists>>

\* a panic in a rewrite goroutine: the runtime exits with 2, no deferred call of main runs
GoroutinePanics ==
  /\ pc' = "crashed"
  /\ exitCode' = 2
  /\ UNCHANGED <<fs, tmpExists>>

\* Process returns, the deferred calls run, and main returns
ProcessReturns ==
  /\ pc' = "returned"
  /\ exitCode' = 0
  /\ IF DeferRegistered
     THEN fs' = RemoveTmp(fs, tmpDir) /\ tmpExists' = (tmpExists /\ tmpDir = <<>>)
     ELSE UNCHANGED <<fs, tmpExists>>

\* os.Exit(1): no deferred call runs
OsExit1 ==
  /\ pc' = "exited"
  /\ exitCode' = 1
  /\ UNCHANGED <<fs, tmpExists>>

\* runCommand starting the tool a second time when it could not be started
runCommand_Retry(site, t, a, started, code) ==
  /\ runs' = LET run == [site |-> site, tool |-> t, args |-> a, started |-> started, code |-> code]
             IN IF started THEN Append(runs, run) ELSE Append(Append(runs, run), run)
  /\ IF ~started \/ code # 0 THEN OsExit1 ELSE ProcessReturns

\* runCommand, called at `site`: cmd.Run fails when the tool cannot be started or exits non-zero
runCommand(site, t, a, started, code) ==
  /\ runs' = Append(runs, [site |-> site, tool |-> t, args |-> a, started |-> started, code |-> code])
  /\ IF ~started \/ code # 0 THEN OsExit1 ELSE ProcessReturns

\* --------------------------------------------------------------- Process
\* the test of the version probe on the first argument alone
IsVersionProbe_First(as) == Len(as) >= 1 /\ as[1] = VFull
IsVersionProbe(as) == Len(as) = 1 /\ as[1] = VFull
\* the test of the tool without filepath.Base
IsCompileTool_NoBase(t) == t = Compile
IsCompileTool(t) == Base(t) = Compile

\* lines 85-91 with alterToolVersion
VersionProbe ==
  /\ pc = "start" /\ Running
  /\ IsVersionProbe(args)
  /\ \E probeRan \in BOOLEAN, probeOut \in ProbeOutputs, exeOK \in BOOLEAN,
        idRan \in BOOLEAN, idOut \in ToolIDs :
       LET r == alterToolVersion(tool, hasher, probeRan, probeOut, exeOK, idRan, idOut)
       IN /\ runs' = Append(runs, [site |-> "probe", tool |-> tool, args |-> args,
                                   started |-> probeRan, code |-> 0])
          /\ call' = [op |-> "probe", probeRan |-> probeRan, probeOut |-> probeOut,
                      exeOK |-> exeOK, idRan |-> idRan, idOut |-> idOut]
          /\ stdout' = stdout \o r.printed
          /\ hasher' = r.hasher
          /\ IF r.err # Nil THEN MainPanics ELSE ProcessReturns
  /\ UNCHANGED <<osArgs, cfg0, manifest, filesToCompile, goFilesIndex, wd, importCfg, newArgs,
                 tmpDir, err, fileImports, wg, task>>

\* lines 93-97
PassThrough ==
  /\ pc = "start" /\ Running
  /\ ~IsVersionProbe(args)
  /\ ~IsCompileTool(tool)
  /\ \E started \in BOOLEAN, code \in 0..MaxExit :
       runCommand("passthrough", tool, args, started, code)
  /\ UNCHANGED <<call, osArgs, cfg0, manifest, filesToCompile, goFilesIndex, wd, importCfg, newArgs,
                 tmpDir, err, fileImports, wg, task, stdout, hasher>>

\* lines 104-107
Extract ==
  /\ pc = "start" /\ Running
  /\ ~IsVersionProbe(args)
  /\ IsCompileTool(tool)
  /\ LET r == extractFilesFromPack(args)
     IN /\ err' = r.err
        /\ filesToCompile' = r.files
        /\ goFilesIndex' = r.index
        /\ IF r.err # Nil THEN MainPanics
           ELSE pc' = "getwd" /\ UNCHANGED <<exitCode, fs, tmpExists>>
  /\ UNCHANGED <<call, osArgs, cfg0, manifest, wd, importCfg, newArgs, tmpDir, fileImports, wg, task,
                 runs, stdout, hasher>>

\* lines 109-112
Getwd ==
  /\ pc = "getwd" /\ Running
  /\ \E ran \in BOOLEAN, out \in GomodOutputs :
       LET r == getwd(ran, out)
       IN /\ err' = r.err
          /\ wd' = r.wd
          /\ IF r.err # Nil THEN MainPanics
             ELSE pc' = "importcfg" /\ UNCHANGED <<exitCode, fs, tmpExists>>
  /\ UNCHANGED <<call, osArgs, cfg0, manifest, filesToCompile, goFilesIndex, importCfg, newArgs, tmpDir,
                 fileImports, wg, task, runs, stdout, hasher>>

\* lines 118-128
ImportCfg ==
  /\ pc = "importcfg" /\ Running
  /\ LET r == importcfgPath(osArgs)
     IN /\ importCfg' = r.path
        /\ IF r.err # Nil
           THEN /\ MainPanics
                /\ err' = (IF r.err = "panic" THEN err ELSE r.err)
                /\ UNCHANGED newArgs
           ELSE /\ pc' = "guard"
                /\ err' = Nil
                /\ newArgs' = SliceTo(osArgs, goFilesIndex)
                /\ UNCHANGED <<exitCode, fs, tmpExists>>
  /\ UNCHANGED <<call, osArgs, cfg0, manifest, filesToCompile, goFilesIndex, wd, tmpDir, fileImports,
                 wg, task, runs, stdout, hasher>>

\* lines 130-134
Skip ==
  /\ pc = "guard" /\ Running
  /\ hasNonRelevantFiles(args, filesToCompile, wd)
  /\ \E started \in BOOLEAN, code \in 0..MaxExit : runCommand("skip", tool, args, started, code)
  /\ UNCHANGED <<call, osArgs, cfg0, manifest, filesToCompile, goFilesIndex, wd, importCfg, newArgs,
                 tmpDir, err, fileImports, wg, task, stdout, hasher>>

\* lines 139-147: os.MkdirTemp, whose error is dropped, the defer and wg.Add
Mkdir ==
  /\ pc = "guard" /\ Running
  /\ ~hasNonRelevantFiles(args, filesToCompile, wd)
  /\ \E made \in BOOLEAN :
       /\ tmpDir' = (IF made THEN TmpRoot ELSE <<>>)
       /\ tmpExists' = made
  /\ wg' = Len(filesToCompile)
  /\ task' = [i \in 1..Len(filesToCompile) |->
                [pc |-> "idle", path |-> filesToCompile[i], newFileName |-> <<>>,
                 ret |-> [path |-> <<>>, imports |-> <<>>, err |-> Nil]]]
  /\ pc' = "spawn"
  /\ UNCHANGED <<call, osArgs, cfg0, manifest, fs, exitCode, filesToCompile, goFilesIndex, wd,
                 importCfg, newArgs, err, fileImports, runs, stdout, hasher>>


\* line 150-151: the loop starts one goroutine per file; each closure has its own
\* filePathToCompile (the per-iteration loop variable of Go 1.22)
Spawn ==
  /\ pc = "spawn" /\ Running
  /\ IF \E i \in DOMAIN task : task[i].pc = "idle"
     THEN LET i == CHOOSE k \in DOMAIN task :
                     task[k].pc = "idle" /\ \A j \in 1..(k - 1) : task[j].pc # "idle"
          IN task' = [task EXCEPT ![i].pc = "rewrite"] /\ pc' = pc
     ELSE pc' = "wait" /\ UNCHANGED task
  /\ UNCHANGED <<call, osArgs, cfg0, manifest, fs, exitCode, filesToCompile, goFilesIndex, wd,
                 importCfg, newArgs, tmpDir, tmpExists, err, fileImports, wg, runs, stdout, hasher>>

\* processFile lines 288-330: parse, modify, print and write the copy
TaskRewrite(i) ==
  /\ Running /\ task[i].pc = "rewrite"
  /\ LET newFileName == tmpDir \o <<PathSeparator>> \o Base(task[i].path)
     IN \/ \* packagesResolver, dstFile or restorer.Fprint returns an error
           /\ task' = [task EXCEPT ![i].pc = "setImports",
                                   ![i].ret = [path |-> <<>>, imports |-> <<>>, err |-> Err]]
           /\ UNCHANGED <<fs, pc, exitCode, tmpExists>>
        \/ \* output panics
           /\ GoroutinePanics
           /\ UNCHANGED task
        \/ \E text \in Outputs(task[i].path) :
             /\ fs' = [q \in DOMAIN fs \cup {newFileName} |->
                         IF q = newFileName THEN text ELSE fs[q]]
             /\ task' = [task EXCEPT ![i].pc = "reparse", ![i].newFileName = newFileName]
             /\ UNCHANGED <<pc, exitCode, tmpExists>>
  /\ UNCHANGED <<call, osArgs, cfg0, manifest, filesToCompile, goFilesIndex, wd, importCfg, newArgs,
                 tmpDir, err, fileImports, wg, runs, stdout, hasher>>

\* processFile lines 332-340: parse the written copy again
TaskReparse(i) ==
  /\ Running /\ task[i].pc = "reparse"
  /\ LET f == fs[task[i].newFileName]
     IN task' = [task EXCEPT
                   ![i].pc = "setImports",
                   ![i].ret = IF f.parses
                              THEN [path |-> task[i].newFileName, imports |-> f.imports, err |-> Nil]
                              ELSE [path |-> <<>>, imports |-> <<>>, err |-> Err]]
  /\ UNCHANGED <<call, osArgs, cfg0, manifest, fs, pc, exitCode, filesToCompile, goFilesIndex, wd,
                 importCfg, newArgs, tmpDir, tmpExists, err, fileImports, wg, runs, stdout, hasher>>

\* line 157: the tuple assignment stores left to right; this is the store to fileImports.
\* The stores and loads of fileImports and err are not synchronised: the goroutines race,
\* and every order of the stores and loads below is a behaviour of the program.
TaskSetImports(i) ==
  /\ Running /\ task[i].pc = "setImports"
  /\ fileImports' = task[i].ret.imports
  /\ task' = [task EXCEPT ![i].pc = "setErr"]
  /\ UNCHANGED <<call, osArgs, cfg0, manifest, fs, pc, exitCode, filesToCompile, goFilesIndex, wd,
                 importCfg, newArgs, tmpDir, tmpExists, err, wg, runs, stdout, hasher>>

\* line 157: the store to err
TaskSetErr(i) ==
  /\ Running /\ task[i].pc = "setErr"
  /\ err' = task[i].ret.err
  /\ task' = [task EXCEPT ![i].pc = "check"]
  /\ UNCHANGED <<call, osArgs, cfg0, manifest, fs, pc, exitCode, filesToCompile, goFilesIndex, wd,
                 importCfg, newArgs, tmpDir, tmpExists, fileImports, wg, runs, stdout, hasher>>

\* lines 158-160: the load of err
TaskCheck(i) ==
  /\ Running /\ task[i].pc = "check"
  /\ IF err # Nil
     THEN GoroutinePanics /\ UNCHANGED task
     ELSE task' = [task EXCEPT ![i].pc = "append"] /\ UNCHANGED <<fs, pc, exitCode, tmpExists>>
  /\ UNCHANGED <<call, osArgs, cfg0, manifest, filesToCompile, goFilesIndex, wd, importCfg, newArgs,
                 tmpDir, err, fileImports, wg, runs, stdout, hasher>>

\* lines 163-165, under the mutex
TaskAppend(i) ==
  /\ Running /\ task[i].pc = "append"
  /\ newArgs' = Append(newArgs, task[i].ret.path)
  /\ task' = [task EXCEPT ![i].pc = "defer"]
  /\ UNCHANGED <<call, osArgs, cfg0, manifest, fs, pc, exitCode, filesToCompile, goFilesIndex, wd,
                 importCfg, tmpDir, tmpExists, err, fileImports, wg, runs, stdout, hasher>>

\* the goroutine returning without wg.Add(-1)
TaskDone_NoAdd(i) ==
  /\ Running /\ task[i].pc = "defer"
  /\ task' = [task EXCEPT ![i].pc = "done"]
  /\ UNCHANGED <<call, osArgs, cfg0, manifest, fs, pc, exitCode, filesToCompile, goFilesIndex, wd,
                 importCfg, newArgs, tmpDir, tmpExists, err, fileImports, wg, runs, stdout, hasher>>

\* line 152: the deferred wg.Add(-1)
TaskDone(i) ==
  /\ Running /\ task[i].pc = "defer"
  /\ wg' = wg - 1
  /\ task' = [task EXCEPT ![i].pc = "done"]
  /\ UNCHANGED <<call, osArgs, cfg0, manifest, fs, pc, exitCode, filesToCompile, goFilesIndex, wd,
                 importCfg, newArgs, tmpDir, tmpExists, err, fileImports, runs, stdout, hasher>>

\* wg.Wait returning at once
Wait_NoBarrier ==
  /\ pc = "wait" /\ Running
  /\ pc' = "patch"
  /\ UNCHANGED <<call, osArgs, cfg0, manifest, fs, exitCode, filesToCompile, goFilesIndex, wd,
                 importCfg, newArgs, tmpDir, tmpExists, err, fileImports, wg, task, runs, stdout,
                 hasher>>

\* line 168: wg.Wait returns when the counter is zero
Wait ==
  /\ pc = "wait" /\ Running
  /\ wg = 0
  /\ pc' = "patch"
  /\ UNCHANGED <<call, osArgs, cfg0, manifest, fs, exitCode, filesToCompile, goFilesIndex, wd,
                 importCfg, newArgs, tmpDir, tmpExists, err, fileImports, wg, task, runs, stdout,
                 hasher>>

\* lines 170-175
Patch ==
  /\ pc = "patch" /\ Running
  /\ \E golist \in GoLists(manifest, fileImports) :
       LET r == addMissingPkgs(manifest, fileImports, golist)
       IN /\ manifest' = r.cfg
          /\ err' = r.err
          /\ call' = [op |-> "patch", before |-> manifest, imports |-> fileImports,
                      golist |-> golist]
          /\ IF r.err # Nil THEN MainPanics
             ELSE pc' = "dispatch" /\ UNCHANGED <<exitCode, fs, tmpExists>>
  /\ UNCHANGED <<osArgs, cfg0, filesToCompile, goFilesIndex, wd, importCfg, newArgs, tmpDir,
                 fileImports, wg, task, runs, stdout, hasher>>

\* lines 177-181
Dispatch ==
  /\ pc = "dispatch" /\ Running
  /\ \E started \in BOOLEAN, code \in 0..MaxExit :
       runCommand("dispatch", newArgs[toolOffset + 1], SliceFrom(newArgs, argsOffset), started, code)
  /\ UNCHANGED <<call, osArgs, cfg0, manifest, filesToCompile, goFilesIndex, wd, importCfg, newArgs,
                 tmpDir, err, fileImports, wg, task, stdout, hasher>>

Next ==
  \/ VersionProbe
  \/ PassThrough
  \/ Extract
  \/ Getwd
  \/ ImportCfg
  \/ Skip
  \/ Mkdir
  \/ Spawn
  \/ \E i \in DOMAIN task : TaskRewrite(i)
  \/ \E i \in DOMAIN task : TaskReparse(i)
  \/ \E i \in DOMAIN task : TaskSetImports(i)
  \/ \E i \in DOMAIN task : TaskSetErr(i)
  \/ \E i \in DOMAIN task : TaskCheck(i)
  \/ \E i \in DOMAIN task : TaskAppend(i)
  \/ \E i \in DOMAIN task : TaskDone(i)
  \/ Wait
  \/ Patch
  \/ Dispatch

Spec == Init /\ [][Next]_vars

\* Process on a manifest that holds the header only, with a scheduler that runs a goroutine
\* that can take a step: every call and every subprocess returns
LiveInit == Init /\ cfg0 = [exists |-> TRUE, data |-> Header]

LiveSpec == LiveInit /\ [][Next]_vars /\ WF_vars(Next)

\* ------------------------------------------- extractFilesFromPack called by itself
\* the argument vectors it is called on: any words, -pack any number of times
ExtractArgs ==
  UNION { [1..n -> {PackFlag, StdFlag, AllFiles[1], AllFiles[2]}] : n \in 0..MaxArgs }

ExtractInit ==
  /\ pc = "extract"
  /\ osArgs \in {<<Self, <<"/", "t", "/", "compile">> >> \o as : as \in ExtractArgs}
  /\ call = [op |-> "none"]
  /\ cfg0 = [exists |-> FALSE, data |-> <<>>]
  /\ manifest = cfg0
  /\ fs = [p \in Range(AllFiles) |-> Original(p)]
  /\ exitCode = -1
  /\ filesToCompile = <<>>
  /\ goFilesIndex = 0
  /\ wd = <<>>
  /\ importCfg = <<>>
  /\ newArgs = <<>>
  /\ tmpDir = <<>>
  /\ tmpExists = FALSE
  /\ err = Nil
  /\ fileImports = <<>>
  /\ wg = 0
  /\ task = <<>>
  /\ runs = <<>>
  /\ stdout = <<>>
  /\ hasher = <<>>

\* goinject.go line 104
ExtractCall ==
  /\ pc = "extract"
  /\ LET r == extractFilesFromPack(args)
     IN /\ err' = r.err
        /\ filesToCompile' = r.files
        /\ goFilesIndex' = r.index
  /\ pc' = "extracted"
  /\ UNCHANGED <<call, osArgs, cfg0, manifest, fs, exitCode, wd, importCfg, newArgs, tmpDir,
                 tmpExists, fileImports, wg, task, runs, stdout, hasher>>

ExtractNext == ExtractCall

ExtractSpec == ExtractInit /\ [][ExtractNext]_vars

\* ------------------------------------------- the patcher called by itself
\* no call of the patcher is being looked at
NoCall(cfg) ==
  [op |-> "patch", done |-> FALSE, before |-> cfg, imports |-> <<>>, golist |-> [p \in Pkgs |-> "fail"]]

\* addMissingPkgs of goinject.go or of moonject.go (pc says which) is called again and
\* again on one manifest, with any import list and any answers of `go list`
PatchInit ==
  /\ pc \in {"goinject", "moonject"}
  /\ cfg0 \in PatchManifests
  /\ manifest = cfg0
  /\ call = NoCall(cfg0)
  /\ osArgs = <<>>
  /\ fs = [p \in Range(AllFiles) |-> Original(p)]
  /\ exitCode = -1
  /\ filesToCompile = <<>>
  /\ goFilesIndex = 0
  /\ wd = <<>>
  /\ importCfg = CfgPath
  /\ newArgs = <<>>
  /\ tmpDir = <<>>
  /\ tmpExists = FALSE
  /\ err = Nil
  /\ fileImports = <<>>
  /\ wg = 0
  /\ task = <<>>
  /\ runs = <<>>
  /\ stdout = <<>>
  /\ hasher = <<>>

\* goinject.go lines 232-262
GoinjectPatch ==
  /\ pc = "goinject" /\ ~call.done
  /\ \E imports \in PatchImportLists :
     \E golist \in GoLists(manifest, imports) :
       LET r == addMissingPkgs(manifest, imports, golist)
       IN /\ manifest' = r.cfg
          /\ err' = r.err
          /\ fileImports' = imports
          /\ call' = [op |-> "patch", done |-> TRUE, before |-> manifest, imports |-> imports,
                      golist |-> golist]
  /\ UNCHANGED <<osArgs, cfg0, fs, pc, exitCode, filesToCompile, goFilesIndex, wd, importCfg,
                 newArgs, tmpDir, tmpExists, wg, task, runs, stdout, hasher>>

\* moonject.go lines 132-158
MoonjectPatch ==
  /\ pc = "moonject" /\ ~call.done
  /\ \E imports \in PatchImportLists :
     \E golist \in GoLists(manifest, imports) :
       LET r == moonject_addMissingPkgs(manifest, imports, golist)
       IN /\ manifest' = r.cfg
          /\ err' = r.err
          /\ fileImports' = imports
          /\ call' = [op |-> "patch", done |-> TRUE, before |-> manifest, imports |-> imports,
                      golist |-> golist]
  /\ UNCHANGED <<osArgs, cfg0, fs, pc, exitCode, filesToCompile, goFilesIndex, wd, importCfg,
                 newArgs, tmpDir, tmpExists, wg, task, runs, stdout, hasher>>

\* the caller is done with the result; the manifest stays as the call left it
PatchReturn ==
  /\ call.done
  /\ call' = NoCall(manifest)
  /\ err' = Nil
  /\ fileImports' = <<>>
  /\ UNCHANGED <<osArgs, cfg0, manifest, fs, pc, exitCode, filesToCompile, goFilesIndex, wd,
                 importCfg, newArgs, tmpDir, tmpExists, wg, task, runs, stdout, hasher>>

PatchNext == GoinjectPatch \/ MoonjectPatch \/ PatchReturn

PatchSpec == PatchInit /\ [][PatchNext]_vars


\* ------------------------------------------- the forger called by itself
\* the lines addToolToHash is given: the trimmed answers of the probe
ForgeLines == {TrimSpace(out) : out \in ProbeOutputs}

\* addToolToHash and encodeBuildIDHash are called up to MaxForgeCalls times in one process,
\* on the one global hasher; call.log keeps the inputs and the token of every call
ForgeInit ==
  /\ pc = "forger"
  /\ hasher = <<>>
  /\ call = [op |-> "forge", log |-> <<>>]
  /\ osArgs = <<>>
  /\ cfg0 = [exists |-> FALSE, data |-> <<>>]
  /\ manifest = cfg0
  /\ fs = [p \in Range(AllFiles) |-> Original(p)]
  /\ exitCode = -1
  /\ filesToCompile = <<>>
  /\ goFilesIndex = 0
  /\ wd = <<>>
  /\ importCfg = <<>>
  /\ newArgs = <<>>
  /\ tmpDir = <<>>
  /\ tmpExists = FALSE
  /\ err = Nil
  /\ fileImports = <<>>
  /\ wg = 0
  /\ task = <<>>
  /\ runs = <<>>
  /\ stdout = <<>>

\* part_000 lines 41 and 53: contentID, err := addToolToHash(...); encodeBuildIDHash(contentID)
ForgeCall ==
  /\ pc = "forger" /\ Len(call.log) < MaxForgeCalls
  /\ \E line \in ForgeLines, idRan \in BOOLEAN, idOut \in ToolIDs :
       LET a == addToolToHash(hasher, line, idRan, idOut)
       IN /\ hasher' = a.hasher
          /\ err' = a.err
          /\ call' = [call EXCEPT !.log =
                        Append(@, [line |-> line,
                                   id |-> buildidOf(idRan, idOut).out,
                                   err |-> a.err,
                                   token |-> IF a.err = Nil THEN encodeBuildIDHash(a.sum)
                                             ELSE [b64 |-> <<>>]])]
  /\ UNCHANGED <<osArgs, cfg0, manifest, fs, pc, exitCode, filesToCompile, goFilesIndex, wd,
                 importCfg, newArgs, tmpDir, tmpExists, fileImports, wg, task, runs, stdout>>

ForgeNext == ForgeCall

ForgeSpec == ForgeInit /\ [][ForgeNext]_vars


\* ------------------------------------------------------------------ claims
Ended == ~Running
FirstPack == Index(args, PackFlag)
FilesAfterPack == SliceFrom(args, FirstPack + 1)
ProbeArgs == Len(args) = 1 /\ args[1] = VFull
RanOriginal == Len(runs) = 1 /\ runs[1].tool = tool /\ runs[1].args = args
Fs0 == [p \in Range(AllFiles) |-> Original(p)]
ImportPaths(imports) == {PkgNameOf(imports[i]) : i \in 1..Len(imports)}
HasLineFor(cfg, p) ==
  cfg.exists /\ \E i \in 1..Len(Lines(cfg.data)) :
                  HasPrefix(Lines(cfg.data)[i], <<"packagefile ", p, "=">>)

\* C1: if processFile returned an error for a file of the batch, the real compiler is not
\* launched and the invocation does not end with success
C1_RewriteErrorAborts ==
  (\E i \in DOMAIN task : task[i].ret.err # Nil) =>
    /\ runs = <<>>
    /\ Ended => exitCode # 0

\* C2: once every rewrite goroutine has finished, the import list handed to addMissingPkgs
\* holds the imports processFile returned for every file of the batch
C2_ImportsAreUnion ==
  pc = "patch" =>
    ImportPaths(fileImports) = UNION {ImportPaths(task[i].ret.imports) : i \in DOMAIN task}

\* C3: two files, only one of which has pkgX in its rewritten imports, the other imports
\* being mapped already and pkgX not: at the final dispatch the manifest is the old one
\* followed by the line of pkgX
C3_PkgXPatched ==
  ( /\ pc = "dispatch"
    /\ Len(filesToCompile) = 2
    /\ \A i \in DOMAIN task : task[i].ret.err = Nil
    /\ \E a \in DOMAIN task :
         /\ <<"pkgX">> \in ImportPaths(task[a].ret.imports)
         /\ \A b \in DOMAIN task \ {a} :
              \A p \in ImportPaths(task[b].ret.imports) : p # <<"pkgX">> /\ HasLineFor(cfg0, p[1])
    /\ HasLineFor(cfg0, "fmt")
    /\ ~HasLineFor(cfg0, "pkgX") )
  => manifest.data = cfg0.data \o ManifestLine(<<"pkgX">>, ExportOf("pkgX"))

\* C4: when the invocation has ended, a temporary directory it created is gone
C4_TmpDirRemoved ==
  (Ended /\ tmpDir # <<>>) =>
    /\ ~tmpExists
    /\ \A q \in DOMAIN fs : ~HasPrefix(q, tmpDir)

\* C5: after runCommand ran the tool, the process ends with the exit code of the tool, and
\* with 1 when the tool could not be started
C5_ExitCodePropagated ==
  (Ended /\ runs # <<>> /\ runs[Len(runs)].site # "probe") =>
    exitCode = (IF runs[Len(runs)].started THEN runs[Len(runs)].code ELSE 1)

\* C6: once the guard has seen a batch with -std, with a file that is not .go or with a file
\* outside the module root, no goroutine is started, no file is written, the manifest is
\* not changed, and the only subprocess is the real tool with the original arguments
C6_AllOrNothing ==
  ( /\ newArgs # <<>>
    /\ pc # "guard"
    /\ \/ StdFlag \in Range(args)
       \/ \E i \in 1..Len(FilesAfterPack) : Ext(FilesAfterPack[i]) # GoExt
       \/ \E i \in 1..Len(FilesAfterPack) : ~HasPrefix(FilesAfterPack[i], wd) )
  => /\ task = <<>>
     /\ tmpDir = <<>> /\ ~tmpExists
     /\ fs = Fs0
     /\ manifest = cfg0
     /\ RanOriginal /\ runs[1].site = "skip"

C6_Witness ==
  /\ Ended /\ newArgs # <<>>
  /\ Len(FilesAfterPack) = 2
  /\ Ext(FilesAfterPack[1]) = GoExt /\ HasPrefix(FilesAfterPack[1], wd)
  /\ Ext(FilesAfterPack[2]) # GoExt
  /\ StdFlag \notin Range(args)
  /\ RanOriginal

\* C7, as the spec states it: an invocation that is neither the version probe nor 'compile'
\* with -pack ends by running the real tool with the original arguments, never by a panic
C7_NeverAborts ==
  (Ended /\ ~ProbeArgs /\ ~(Base(tool) = Compile /\ FirstPack # -1)) =>
    /\ pc # "panicked"
    /\ RanOriginal

\* C7, amended: files are rewritten only for 'compile' with -pack; any other tool name
\* (not the version probe) runs the real tool with the original arguments and nothing
\* else; 'compile' without -pack panics and runs nothing
C7_Classification ==
  /\ (task # <<>> \/ tmpDir # <<>>) => (Base(tool) = Compile /\ FirstPack # -1)
  /\ (Ended /\ ~ProbeArgs /\ Base(tool) # Compile) =>
       (pc # "panicked" /\ RanOriginal /\ runs[1].site = "passthrough"
        /\ fs = Fs0 /\ manifest = cfg0)
  /\ (~ProbeArgs /\ Base(tool) = Compile /\ FirstPack = -1 /\ pc # "start") =>
       (pc = "panicked" /\ exitCode = 2 /\ runs = <<>> /\ fs = Fs0 /\ manifest = cfg0)

C7_Witness ==
  /\ ~ProbeArgs /\ Base(tool) = Compile /\ FirstPack = -1
  /\ pc = "panicked" /\ runs = <<>>

\* C8: a compile step with -std or with a file that is not .go ends by running the real
\* tool with the original arguments, never by a panic
C8_IneligibleFallsBack ==
  ( /\ Ended /\ ~ProbeArgs /\ Base(tool) = Compile /\ FirstPack # -1
    /\ \/ StdFlag \in Range(args)
       \/ \E i \in 1..Len(FilesAfterPack) : Ext(FilesAfterPack[i]) # GoExt )
  => /\ pc # "panicked"
     /\ RanOriginal

\* C9: the argument vector dispatched after rewriting keeps os.Args up to and including
\* -pack, continues with one path returned by processFile per trailing file, and is as
\* long as os.Args
C9_Splice ==
  \A n \in 1..Len(runs) :
    runs[n].site = "dispatch" =>
      LET k == FirstPack
          m == Len(args) - k - 1
          sent == <<osArgs[1], runs[n].tool>> \o runs[n].args
      IN /\ Len(sent) = Len(osArgs)
         /\ SubSeq(sent, 1, k + 3) = SubSeq(osArgs, 1, k + 3)
         /\ sent[k + 3] = PackFlag
         /\ Len(sent) - (k + 3) = m
         /\ \A j \in (k + 4)..Len(sent) : \E i \in DOMAIN task : sent[j] = task[i].ret.path

C9_Witness ==
  /\ runs # <<>> /\ runs[Len(runs)].site = "dispatch"
  /\ FirstPack = 2
  /\ Len(filesToCompile) = 2
  /\ \A i \in DOMAIN task : task[i].ret.err = Nil

\* C10: the manifest the invocation started with is a prefix of the manifest, and the file
\* is neither created nor removed
C10_AppendOnly ==
  /\ manifest.exists = cfg0.exists
  /\ HasPrefix(manifest.data, cfg0.data)

C10_Witness ==
  /\ pc = "dispatch"
  /\ cfg0.data # <<>>
  /\ Len(manifest.data) > Len(cfg0.data)

\* the entries for import path p in the bytes of a manifest
Occurrences(data, p) ==
  Cardinality({i \in 1..(Len(data) - 2) :
                 data[i] = "packagefile " /\ data[i + 1] = p /\ data[i + 2] = "="})

\* C11: whatever calls of goinject's addMissingPkgs were made on a manifest, it holds at
\* most one entry more than at the start for each import path, and none more for a
\* path it had an entry for
C11_NoDuplicate ==
  pc = "goinject" =>
    \A p \in Pkgs :
      /\ Occurrences(manifest.data, p) <= Occurrences(cfg0.data, p) + 1
      /\ Occurrences(cfg0.data, p) > 0 =>
           Occurrences(manifest.data, p) = Occurrences(cfg0.data, p)

\* the second call got a list that names pkgX twice, after the first call added pkgX
C11_Witness ==
  /\ pc = "goinject" /\ call.done
  /\ call.imports = <<ImportSpec("pkgX"), ImportSpec("pkgX")>>
  /\ err = Nil
  /\ Occurrences(cfg0.data, "pkgX") = 0
  /\ Occurrences(call.before.data, "pkgX") = 1
  /\ manifest = call.before

\* the imports of the last call of the patcher that are not "unsafe", had no entry in
\* the manifest, and for which `go list` failed or reported no archive
Unresolved ==
  {p \in Pkgs \ {"unsafe"} :
     /\ <<p>> \in ImportPaths(call.imports)
     /\ Occurrences(call.before.data, p) = 0
     /\ call.golist[p] # "ok"}

\* C12: when addMissingPkgs was called with an import that is not in the manifest, is not
\* "unsafe" and cannot be resolved, the call returned an error, the manifest has no entry
\* for that import, and Process has panicked without running the real compiler
C12_UnresolvedAborts ==
  (call.op = "patch" /\ Unresolved # {}) =>
    /\ err # Nil
    /\ \A p \in Unresolved : Occurrences(manifest.data, p) = 0
    /\ pc = "panicked" /\ exitCode = 2
    /\ runs = <<>>

\* fmt was added, then pkgX had no archive in the listing
C12_Witness ==
  /\ call.op = "patch" /\ pc = "panicked"
  /\ call.imports = <<ImportSpec("fmt"), ImportSpec("pkgX")>>
  /\ call.golist["pkgX"] = "noexport"
  /\ Occurrences(call.before.data, "fmt") = 0
  /\ Occurrences(manifest.data, "fmt") = 1
  /\ Occurrences(manifest.data, "pkgX") = 0

\* the import list of the last call of the patcher without "unsafe"
WithoutUnsafe == SelectSeq(call.imports, LAMBDA spec : PkgNameOf(spec) # <<"unsafe">>)

\* C13: a call of goinject's addMissingPkgs added no entry for "unsafe", and it left the
\* manifest and returned the error that the call with the same list without "unsafe"
\* leaves and returns, whatever `go list` answers for "unsafe"
C13_UnsafeIgnored ==
  (pc = "goinject" /\ call.done) =>
    /\ Occurrences(manifest.data, "unsafe") = Occurrences(call.before.data, "unsafe")
    /\ LET r == addMissingPkgs(call.before, WithoutUnsafe, call.golist)
       IN r.cfg = manifest /\ r.err = err

\* "unsafe" came first and `go list` fails for it; pkgX was added all the same
C13_Witness ==
  /\ pc = "goinject" /\ call.done
  /\ call.imports = <<ImportSpec("unsafe"), ImportSpec("pkgX")>>
  /\ call.golist["unsafe"] = "fail"
  /\ err = Nil
  /\ Occurrences(call.before.data, "pkgX") = 0
  /\ Occurrences(manifest.data, "pkgX") = 1

\* what the last call of the patcher appended to the manifest
Appended == SubSeq(manifest.data, Len(call.before.data) + 1, Len(manifest.data))

\* C14: what a call of addMissingPkgs, of goinject.go or of moonject.go, appended to the
\* manifest ends with a newline, and every entry in it but the first starts after a newline
C14_WholeLines ==
  (call.op = "patch" /\ call.done /\ Appended # <<>>) =>
    /\ Appended[Len(Appended)] = "\n"
    /\ \A i \in 2..Len(Appended) : Appended[i] = "packagefile " => Appended[i - 1] = "\n"

\* C15: with the arguments exactly -V=full, whatever the tool, the forger has run once the
\* invocation has left its start, no goroutine, directory or file was made, the manifest
\* is the old one, and the real tool ran for the probe only; with any other arguments
\* the forger has not run
C15_ProbeOnlyForges ==
  /\ ProbeArgs =>
       /\ pc # "start" => call.op = "probe"
       /\ task = <<>>
       /\ tmpDir = <<>> /\ ~tmpExists
       /\ fs = Fs0
       /\ manifest = cfg0
       /\ Len(runs) <= 1
       /\ \A n \in 1..Len(runs) : runs[n].site = "probe"
  /\ ~ProbeArgs =>
       /\ call.op # "probe"
       /\ stdout = <<>>
       /\ hasher = <<>>
       /\ \A n \in 1..Len(runs) : runs[n].site # "probe"

C15_Witness ==
  /\ ProbeArgs /\ Base(tool) = <<"link">>
  /\ pc = "returned"
  /\ stdout # <<>> /\ hasher # <<>>
  /\ Len(runs) = 1

\* the line alterToolVersion got from the probe, and its fields
ProbeLine == TrimSpace(call.probeOut)
ProbeFields == Fields(ProbeLine)
\* the probe ran and its line went through unmodified
PrintedUnmodified ==
  /\ pc = "returned"
  /\ Len(stdout) = 1 /\ Len(stdout[1]) = Len(ProbeLine) /\ stdout[1] = ProbeLine
  /\ hasher = <<>>
\* one line longer than the line of the probe has been printed
PrintedForged == Len(stdout) = 1 /\ Len(stdout[1]) > Len(ProbeLine)

\* C16, as the spec states it: a probe line is rewritten only if it has three fields or
\* more, the tool's name first, "version" second and a last field starting with buildID=;
\* any other line is printed as it is, with success and without hashing
C16_StrictShape ==
  (call.op = "probe" /\ call.probeRan) =>
    LET f == ProbeFields
        shape == /\ Len(f) >= 3
                 /\ f[1] = Base(tool)
                 /\ f[2] = <<"version">>
                 /\ HasPrefix(f[Len(f)], <<"buildID=">>)
    IN ~shape => PrintedUnmodified

\* the shape alterToolVersion forges for: three fields or more, the tool's name first, and
\* "version" second or a last field starting with buildID=
ForgeShape ==
  LET f == ProbeFields
  IN /\ Len(f) >= 3
     /\ f[1] = Base(tool)
     /\ f[2] = <<"version">> \/ HasPrefix(f[Len(f)], <<"buildID=">>)

\* C16, amended: a line is printed unmodified, with success and without hashing, exactly
\* when it has fewer than three fields, or another first field than the tool's name, or
\* neither "version" second nor a last field starting with buildID=; any other line is
\* forged when os.Executable and `go tool buildid` succeed
C16_Shape ==
  (call.op = "probe" /\ call.probeRan) =>
    /\ ~ForgeShape => PrintedUnmodified
    /\ ForgeShape => ~PrintedUnmodified
    /\ (ForgeShape /\ call.exeOK /\ call.idRan) => (pc = "returned" /\ PrintedForged)

\* a line without a buildID= field has been forged
C16_Witness ==
  /\ call.op = "probe" /\ call.probeRan
  /\ ProbeLine = <<"compile", " ", "version", " ", "go1">>
  /\ pc = "returned" /\ PrintedForged

\* C18: when the probe could not be run, or the line was to be forged and os.Executable or
\* `go tool buildid` failed, Process has panicked and nothing has been printed
C18_FailureAborts ==
  call.op = "probe" =>
    /\ ~call.probeRan => (pc = "panicked" /\ exitCode = 2 /\ stdout = <<>>)
    /\ (call.probeRan /\ ForgeShape /\ (~call.exeOK \/ ~call.idRan)) =>
         (pc = "panicked" /\ exitCode = 2 /\ stdout = <<>>)
    /\ pc = "panicked" => stdout = <<>>

\* `go tool buildid` failed after the line of the probe was hashed
C18_Witness ==
  /\ call.op = "probe" /\ call.probeRan /\ ForgeShape
  /\ call.exeOK /\ ~call.idRan
  /\ pc = "panicked" /\ hasher = ProbeLine

\* C19: the line alterToolVersion forged is the line of the probe, then " +", the name of
\* the tool, " buildID=_/_/_/", the encoding of the first 15 bytes of the digest of the
\* line and the build id of the binary, and a newline; the forged buildID field is the
\* last field of the output
C19_ForgedLine ==
  (call.op = "probe" /\ pc = "returned" /\ ForgeShape) =>
    LET line == ProbeLine
        name == Base(tool)
        digest == Sum(line \o TrimSpace(call.idOut))
        out == stdout[1]
        n == Len(line) + Len(name) + 6
    IN /\ Len(stdout) = 1 /\ Len(out) = n
       /\ SubSeq(out, 1, Len(line)) = line
       /\ SubSeq(out, Len(line) + 1, n - 2) = <<" ", "+">> \o name \o <<" ", "buildID=_/_/_/">>
       /\ Len(out[n - 1].b64) = 15
       /\ out[n - 1].b64 = SubSeq(digest, 1, 15)
       /\ out[n] = "\n"

C19_Witness ==
  /\ call.op = "probe" /\ pc = "returned" /\ ForgeShape
  /\ ProbeLine = <<"link", " ", "version", " ", "go1", " ", "buildID=", "y">>
  /\ Len(stdout) = 1 /\ Len(stdout[1]) = Len(ProbeLine) + 7

\* C20: every original source file has the content it had at the start, and every other
\* file is in the temporary directory of the invocation
C20_OriginalsUntouched ==
  /\ \A p \in DOMAIN Fs0 : p \in DOMAIN fs /\ fs[p] = Fs0[p]
  /\ \A q \in DOMAIN fs \ DOMAIN Fs0 :
       tmpDir # <<>> /\ HasPrefix(q, tmpDir \o <<PathSeparator>>)

\* C17: of the calls of addToolToHash and encodeBuildIDHash made so far on the global
\* hasher, two with the same line and the same build id of the binary gave the same token,
\* whatever was called in between, and two that differ in the line only or in the build
\* id only gave different tokens
C17_Deterministic ==
  call.op = "forge" =>
    \A i, j \in 1..Len(call.log) :
      LET a == call.log[i]
          b == call.log[j]
      IN (a.err = Nil /\ b.err = Nil) =>
           /\ (a.line = b.line /\ a.id = b.id) => a.token = b.token
           /\ (a.line = b.line /\ a.id # b.id) => a.token # b.token
           /\ (a.line # b.line /\ a.id = b.id) => a.token # b.token

\* the same inputs were hashed before and after a call with another line
C17_Witness ==
  /\ call.op = "forge" /\ Len(call.log) = 3
  /\ call.log[1].err = Nil /\ call.log[2].err = Nil /\ call.log[3].err = Nil
  /\ call.log[1].line = call.log[3].line /\ call.log[1].id = call.log[3].id
  /\ call.log[2].line # call.log[1].line
  /\ call.log[1].token = call.log[3].token

\* C21: the real tool is started at most once, and it has been started exactly once when
\* an invocation that is not the version probe has ended without a panic
C21_NoRetry ==
  /\ Len(runs) <= 1
  /\ (pc \in {"returned", "exited"} /\ ~ProbeArgs) =>
       (Len(runs) = 1 /\ runs[1].site \in {"passthrough", "skip", "dispatch"})

\* a batch of two files was rewritten and the compiler ran once
C21_Witness ==
  /\ pc = "returned" /\ Len(filesToCompile) = 2
  /\ Len(runs) = 1 /\ runs[1].site = "dispatch" /\ runs[1].started

\* C22: when addMissingPkgs or the final runCommand has started, or the manifest is not
\* the one of the start, every rewrite goroutine of the batch has finished
C22_JoinBarrier ==
  ( \/ pc \in {"patch", "dispatch"}
    \/ call.op = "patch"
    \/ manifest # cfg0
    \/ (runs # <<>> /\ runs[1].site = "dispatch") )
  => \A i \in DOMAIN task : task[i].pc = "done"

\* the manifest was patched after the two goroutines of a batch had finished
C22_Witness ==
  /\ pc = "dispatch" /\ Len(task) = 2
  /\ manifest # cfg0
  /\ \A i \in DOMAIN task : task[i].pc = "done"

\* C23: once the goroutines of a batch are being started, wg.Wait returns or the process
\* ends, under every interleaving of the goroutines
C23_BarrierOpens == (pc = "spawn") ~> (pc = "patch" \/ ~Running)

\* every goroutine of a batch of MaxFiles files is started and none has finished
C23_Witness ==
  /\ pc = "wait" /\ Running /\ wg = Len(task) /\ Len(task) = MaxFiles
  /\ \A i \in DOMAIN task : task[i].pc \notin {"idle", "done"}

\* C24: when processFile succeeded for every file, the files of the dispatched argument
\* vector are, position by position, the paths processFile returned for the files of the
\* original list
C24_Positional ==
  \A n \in 1..Len(runs) :
    (runs[n].site = "dispatch" /\ \A i \in DOMAIN task : task[i].ret.err = Nil) =>
      LET sent == SliceFrom(runs[n].args, FirstPack + 1)
      IN /\ Len(sent) = Len(filesToCompile)
         /\ \A i \in 1..Len(filesToCompile) : sent[i] = task[i].ret.path

\* C25: extractFilesFromPack returned an error exactly when -pack is not among the
\* arguments; otherwise it returned the arguments after the first -pack, in order, and the
\* position of that -pack plus argsOffset plus one, where os.Args has the first file
C25_Extract ==
  pc = "extracted" =>
    IF \A k \in 1..Len(args) : args[k] # PackFlag
    THEN err # Nil
    ELSE /\ err = Nil
         /\ \E k \in 1..Len(args) :
              /\ args[k] = PackFlag
              /\ \A j \in 1..(k - 1) : args[j] # PackFlag
              /\ filesToCompile = SubSeq(args, k + 1, Len(args))
              /\ goFilesIndex = (k - 1) + argsOffset + 1
              /\ SubSeq(osArgs, goFilesIndex + 1, Len(osArgs)) = filesToCompile

\* -pack occurs twice
C25_Witness ==
  /\ pc = "extracted" /\ err = Nil
  /\ args = <<PackFlag, AllFiles[1], PackFlag>>
  /\ filesToCompile = <<AllFiles[1], PackFlag>>

\* C26: a compile step with -pack last, without -std, with -importcfg and with a module
\* root found does not panic, starts no goroutine, leaves the manifest alone, and ends by
\* running the real tool with the original arguments
C26_EmptyBatch ==
  ( /\ wd # <<>>
    /\ Base(tool) = Compile /\ ~ProbeArgs
    /\ FirstPack # -1 /\ FilesAfterPack = <<>>
    /\ StdFlag \notin Range(args)
    /\ ImportcfgFlag \in Range(args) )
  => /\ pc \notin {"panicked", "crashed"}
     /\ task = <<>>
     /\ manifest = cfg0
     /\ Ended => RanOriginal

\* the compiler ran after the empty batch went through the patcher
C26_Witness ==
  /\ wd # <<>> /\ Base(tool) = Compile
  /\ FirstPack # -1 /\ FilesAfterPack = <<>>
  /\ StdFlag \notin Range(args)
  /\ pc = "returned" /\ call.op = "patch"
  /\ RanOriginal /\ runs[1].site = "dispatch"

\* the import path at position i of the last call of the patcher
PathAt(i) == PkgNameOf(call.imports[i])[1]
\* that import is not "unsafe", the manifest had no entry for it, and it is not listed before
Missing(i) ==
  /\ PathAt(i) # "unsafe"
  /\ Occurrences(call.before.data, PathAt(i)) = 0
  /\ \A j \in 1..(i - 1) : PathAt(j) # PathAt(i)
\* it can be added: `go list` reports its archive and the manifest can be opened
Addable(i) == call.golist[PathAt(i)] = "ok" /\ call.before.exists

RECURSIVE EntriesUpTo(_)
\* the entries of the missing imports at the positions 1..k, in list order
EntriesUpTo(k) ==
  IF k = 0 THEN <<>>
  ELSE EntriesUpTo(k - 1) \o
       (IF Missing(k) THEN ManifestLine(<<PathAt(k)>>, ExportOf(PathAt(k))) ELSE <<>>)

\* C27: a call of goinject's addMissingPkgs that returned an error failed at the first
\* missing import k that cannot be added, and left in the manifest the entries of the
\* missing imports before k, in list order, and nothing else; a call that returned no
\* error left the entries of all the missing imports
C27_StopAtFirstFailure ==
  (pc = "goinject" /\ call.done) =>
    /\ manifest.exists = call.before.exists
    /\ err = Nil =>
         /\ \A i \in 1..Len(call.imports) : Missing(i) => Addable(i)
         /\ manifest.data = call.before.data \o EntriesUpTo(Len(call.imports))
    /\ err # Nil =>
         \E k \in 1..Len(call.imports) :
           /\ Missing(k) /\ ~Addable(k)
           /\ \A i \in 1..(k - 1) : Missing(i) => Addable(i)
           /\ manifest.data = call.before.data \o EntriesUpTo(k - 1)

\* pkgX was added, then fmt had no archive: the entry of pkgX stays
C27_Witness ==
  /\ pc = "goinject" /\ call.done /\ err # Nil
  /\ call.imports = <<ImportSpec("pkgX"), ImportSpec("fmt")>>
  /\ call.golist["fmt"] = "noexport"
  /\ manifest.data = call.before.data \o ManifestLine(<<"pkgX">>, ExportOf("pkgX"))

\* C28: two distinct source files of one batch are never written to the same temporary
\* path: the copies of two goroutines that rewrote different files have different names
C28_DistinctCopies ==
  \A i, j \in DOMAIN task :
    ( /\ i # j
      /\ task[i].path # task[j].path
      /\ task[i].newFileName # <<>>
      /\ task[j].newFileName # <<>> )
    => task[i].newFileName # task[j].newFileName

====
